---------------------------- MODULE Spec2Model ----------------------------
(***************************************************************************)
(* A model of trava, a command-line client for a continuous-integration    *)
(* service: lib/colors.py (the colour formatter), lib/pager.py (the pager  *)
(* session) and lib/cli.py (URL routing and the job-log renderer).         *)
(*                                                                         *)
(* Text is a sequence of code points (naturals).  A log stream is a        *)
(* sequence of bytes in which a few values above 255 stand for whole byte  *)
(* strings (an ANSI escape sequence, a travis_time:end pragma).  The       *)
(* nanosecond fields of a pragma are multiples of 10 ms and are held as    *)
(* that multiple, so that they fit the model checker's integers.           *)
(***************************************************************************)
EXTENDS Integers, Sequences, FiniteSets, TLC

VARIABLES
    \* ---- lib/colors.py: one call of format() / _quote()
    c_pc,        \* "ready" | "done"
    c_call,      \* the call: [fn, template, value]
    c_res,       \* its result: [ok, val, err]
    \* ---- lib/cli.py show_job / print_ts_lines: one log stream
    fp,          \* bytes of the response not yet read
    mode,        \* "collapsed" | "timestamps"
    job_pc,      \* "loop" | "done" | "aborted"
    job_exc,     \* the exception that ended the loop, or "none"
    start,       \* print_ts_lines' origin (None, or 10 ms units)
    tbuf,        \* text written to sys.stdout and not flushed yet
    out,         \* bytes that reached sys.stdout.buffer, in order
    cur_line,    \* history: the line read by the last iteration
    cur_out,     \* history: what that iteration made reach the output
    matched,     \* history: the matching pragmas processed, in order
    markers,     \* history: the elapsed value of every marker printed
    \* ---- lib/pager.py autopager: one session
    environ,     \* isatty() of stdout, which("pager"), and $PAGER, $LESS, $LV
    pager_env,   \* the env argument of Popen: "None" or a mapping
    pg_pc,       \* position in autopager
    sys_stdout,  \* "orig" | "redirected"
    pipe_open,   \* the write end of the pager's stdin pipe is open
    pager,       \* "none" | "running" | "exited" | "reaped"
    pending,     \* characters buffered in the redirected stream
    exc,         \* exception in flight: "none" | "BrokenPipeError" | ...
    exit_status, \* -1 while running, else the process's exit status
    events,      \* history: "close", "wait", "restore", in order
    bpe_at,      \* history: where a BrokenPipeError was raised
    \* ---- lib/cli.py main: one invocation
    m_pc,        \* "start" | "in_session" | "handler_run" | "usage_error" | "fatal"
    arg,         \* the URL argument
    git,         \* what `git ls-remote --get-url` would do
    url,         \* the URL after urljoin/urlsplit
    cmd,         \* the handler chosen, or "none"
    captures,    \* the named captures passed to it
    pager_entered,
    api_requests,
    m_exit       \* None while running, else the exit status of a usage error

colorVars == <<c_pc, c_call, c_res>>
jobVars   == <<fp, mode, job_pc, job_exc, start, tbuf, out, cur_line, cur_out,
               matched, markers>>
pagerVars == <<environ, pager_env, pg_pc, sys_stdout, pipe_open, pager, pending, exc, exit_status,
               events, bpe_at>>
mainVars  == <<m_pc, arg, git, url, cmd, captures, pager_entered, api_requests,
               m_exit>>
vars      == <<colorVars, jobVars, pagerVars, mainVars>>

None == -1

\* ------------------------------------------------------------ sequences

RECURSIVE Concat(_)
Concat(ss) == IF ss = <<>> THEN <<>> ELSE Head(ss) \o Concat(Tail(ss))

Repeat(x, n) == [i \in 1..n |-> x]

SeqsUpTo(S, n) == UNION {[1..k -> S] : k \in 0..n}

Ok(v)  == [ok |-> TRUE,  val |-> v,    err |-> "none"]
Err(e) == [ok |-> FALSE, val |-> <<>>, err |-> e]

\* ------------------------------------------------------------ code points

TAB == 9
LF  == 10
CR  == 13
SP  == 32
ESC == 27
DEL == 127

Ord(c) == CASE c = "0" -> 48 [] c = "1" -> 49 [] c = "2" -> 50 [] c = "3" -> 51
            [] c = "4" -> 52 [] c = "5" -> 53 [] c = "6" -> 54 [] c = "7" -> 55
            [] c = "8" -> 56 [] c = "9" -> 57 [] c = "A" -> 65 [] c = "B" -> 66
            [] c = "C" -> 67 [] c = "D" -> 68 [] c = "E" -> 69 [] c = "F" -> 70
            [] c = "-" -> 45 [] c = "." -> 46 [] c = ":" -> 58 [] c = "<" -> 60
            [] c = ">" -> 62 [] c = "U" -> 85 [] c = "+" -> 43 [] c = "^" -> 94
            [] c = "[" -> 91 [] c = "m" -> 109 [] c = "@" -> 64

DigitChar(d) == IF d < 10 THEN 48 + d ELSE 55 + d

RECURSIVE Digits(_, _)
\* the digits of n >= 0 in the given base, most significant first
Digits(n, base) ==
    IF n < base THEN <<DigitChar(n)>>
    ELSE Digits(n \div base, base) \o <<DigitChar(n % base)>>

ZeroPad(s, width) ==
    IF Len(s) >= width THEN s ELSE Repeat(Ord("0"), width - Len(s)) \o s

RECURSIVE BitXor(_, _)
BitXor(a, b) ==
    IF a = 0 /\ b = 0 THEN 0
    ELSE (((a % 2) + (b % 2)) % 2) + 2 * BitXor(a \div 2, b \div 2)

\* ------------------------------------------------------------ lib/colors.py

\* class _seq: the style tokens, by attribute name
_seq == [red    |-> <<ESC, Ord("["), Ord("3"), Ord("1"), Ord("m")>>,
         green  |-> <<ESC, Ord("["), Ord("3"), Ord("2"), Ord("m")>>,
         yellow |-> <<ESC, Ord("["), Ord("3"), Ord("3"), Ord("m")>>,
         cyan   |-> <<ESC, Ord("["), Ord("3"), Ord("6"), Ord("m")>>,
         bold   |-> <<ESC, Ord("["), Ord("1"), Ord("m")>>,
         off    |-> <<ESC, Ord("["), Ord("0"), Ord("m")>>]

\* A template is a sequence of items: literal text, {t.<name>}, or
\* {<name>} / {<name>:<conversion>}.
Lit(s)        == [k |-> "lit",   name |-> "",   conv |-> "",   s |-> s]
Attr(name)    == [k |-> "attr",  name |-> name, conv |-> "",   s |-> <<>>]
Field(name)   == [k |-> "field", name |-> name, conv |-> "",   s |-> <<>>]
FieldAs(name, conv) == [k |-> "field", name |-> name, conv |-> conv, s |-> <<>>]

\* Substitution values: text, an integer, or a float held in hundredths.
Str(s)    == [ty |-> "str",   v |-> s, n |-> 0]
IntV(n)   == [ty |-> "int",   v |-> <<>>, n |-> n]
FloatV(h) == [ty |-> "float", v |-> <<>>, n |-> h]

\* "{:02}" of an integer: sign, then digits zero-padded to the width left
Fmt02(n) ==
    IF n < 0 THEN <<Ord("-")>> \o ZeroPad(Digits(-n, 10), 1)
    ELSE ZeroPad(Digits(n, 10), 2)

\* "{:05.2f}" of a non-negative number of hundredths (an integer n converts
\* to n.00): two decimals, zero-padded to five characters
Fmt052f(value) ==
    LET h == IF value.ty = "int" THEN 100 * value.n ELSE value.n
    IN  ZeroPad(Digits(h \div 100, 10) \o <<Ord(".")>>
                \o ZeroPad(Digits(h % 100, 10), 2), 5)

\* the text str.format() puts for one value
Convert(value, conv) ==
    CASE conv = "02"    -> Fmt02(value.n)
      [] conv = "05.2f" -> Fmt052f(value)
      [] conv = "04X"   -> ZeroPad(Digits(value.n, 16), 4)
      [] OTHER -> IF value.ty = "str" THEN value.v
                  ELSE IF value.n < 0 THEN <<Ord("-")>> \o Digits(-value.n, 10)
                  ELSE Digits(value.n, 10)

\* The result of a run of steps that each return or raise: the first
\* exception, or else the results joined
FirstBad(rs) == CHOOSE i \in DOMAIN rs : ~rs[i].ok /\ \A j \in 1..(i - 1) : rs[j].ok
Join(rs) ==
    IF \E i \in DOMAIN rs : ~rs[i].ok THEN rs[FirstBad(rs)]
    ELSE Ok(Concat([i \in DOMAIN rs |-> rs[i].val]))

\* one replacement field or literal of a template
Piece(it, kwargs, t) ==
    CASE it.k = "lit" -> Ok(it.s)
      [] it.k = "attr" ->
           IF it.name \in DOMAIN t THEN Ok(t[it.name]) ELSE Err("AttributeError")
      [] it.k = "field" ->
           IF it.name \in DOMAIN kwargs THEN Ok(Convert(kwargs[it.name], it.conv))
           ELSE Err("KeyError")

\* str.format(**kwargs, t=t): items are evaluated left to right and the
\* first failing lookup raises
StrFormat(template, kwargs, t) ==
    Join([i \in DOMAIN template |-> Piece(template[i], kwargs, t)])

IsControl(ch) == ch \in 0..31 \/ ch \in 127..159

\* the template and the keywords _quote_unsafe_char formats
UnsafeTemplate(ch) ==
    IF ch = TAB
    THEN <<Attr("reverse"), Lit(<<TAB>>), Attr("unreverse")>>
    ELSE IF ch < SP \/ ch = DEL
    THEN <<Attr("reverse"), Lit(<<Ord("^")>>), Field("c"), Attr("unreverse")>>
    ELSE <<Attr("reverse"), Lit(<<Ord("<"), Ord("U"), Ord("+")>>),
           FieldAs("u", "04X"), Lit(<<Ord(">")>>), Attr("unreverse")>>
UnsafeKwargs(ch) ==
    IF ch = TAB THEN <<>>
    ELSE IF ch < SP \/ ch = DEL THEN [c |-> Str(<<BitXor(Ord("@"), ch)>>)]
    ELSE [u |-> IntV(ch)]

_quote_unsafe_char(ch) == StrFormat(UnsafeTemplate(ch), UnsafeKwargs(ch), _seq)

\* ''.join(map(_quote_unsafe_char, s))
_quote_unsafe(s) == Join([i \in DOMAIN s |-> _quote_unsafe_char(s[i])])

\* re.split(r'([\x00-\x1F\x7F-\x9F]+)', s): the maximal runs of control
\* characters at the odd places (counted from 0), the text between them at
\* the even ones, an empty text before a leading and after a trailing run
RunStarts(s) ==
    {i \in DOMAIN s : i = 1 \/ IsControl(s[i]) # IsControl(s[i - 1])}
RunStart(s, k) ==
    CHOOSE i \in RunStarts(s) : Cardinality({j \in RunStarts(s) : j < i}) = k - 1
RunEnd(s, k) ==
    IF k = Cardinality(RunStarts(s)) THEN Len(s) ELSE RunStart(s, k + 1) - 1
Runs(s) ==
    [k \in 1..Cardinality(RunStarts(s)) |-> SubSeq(s, RunStart(s, k), RunEnd(s, k))]
ReSplit(s) ==
    IF s = <<>> THEN << <<>> >>
    ELSE (IF IsControl(s[1]) THEN << <<>> >> ELSE <<>>) \o Runs(s)
         \o (IF IsControl(s[Len(s)]) THEN << <<>> >> ELSE <<>>)

\* _quote(s): a value that is not text is returned as it is; of text, the
\* chunks at odd places are escaped
_quote(value) ==
    IF value.ty # "str" THEN Ok(value)
    ELSE LET chunks == ReSplit(value.v)
             q == Join([i \in DOMAIN chunks |->
                          IF (i - 1) % 2 = 1 THEN _quote_unsafe(chunks[i])
                          ELSE Ok(chunks[i])])
         IN  IF q.ok THEN Ok(Str(q.val)) ELSE q

\* lib.colors.format(_s, **kwargs): every keyword value is quoted, then the
\* template is filled with them and t=_seq
format(_s, kwargs) ==
    LET qs == [key \in DOMAIN kwargs |-> _quote(kwargs[key])]
    IN  IF \E key \in DOMAIN kwargs : ~qs[key].ok
        THEN qs[CHOOSE key \in DOMAIN kwargs : ~qs[key].ok]
        ELSE StrFormat(_s, [key \in DOMAIN kwargs |-> qs[key].val], _seq)

\* ------------------------------------------------------------ lib/cli.py: job log

\* Values above 255 stand for whole byte strings of a log line.
ANSI == 300
\* "\x1B[0K", an ANSI escape sequence
PragmaBase == 256
\* PragmaBase + i is "travis_time:end:<token>:start=..,finish=..,duration=.."
\* with the fields of TimeEnd[i] (in units of 10 ms)
TimeEnd == << [start |-> 100, finish |-> 250],
              [start |-> 200, finish |-> 400] >>
PragmaAtoms == {PragmaBase + i : i \in 1..Len(TimeEnd)}
MaxColStream == 5
MaxTsStream == 5
ColBytes == {CR, LF, Ord("A"), Ord("B")}
TsBytes  == {CR, LF, ANSI, Ord("A")} \cup PragmaAtoms

RECURSIVE FirstIndex(_, _, _)
\* the least i >= from with s[i] = x, or 0
FirstIndex(s, x, from) ==
    IF from > Len(s) THEN 0
    ELSE IF s[from] = x THEN from ELSE FirstIndex(s, x, from + 1)

\* `for line in fp`: the bytes up to and including the next LF, or all that
\* is left
ReadLine(stream) ==
    LET i == FirstIndex(stream, LF, 1)
    IN  IF i = 0 THEN stream ELSE SubSeq(stream, 1, i)

RECURSIVE RStripAlt(_)
\* a bytes.rstrip(b'\n') in place of rstrip(b'\r\n')
RStripAlt(line) ==
    IF line # <<>> /\ line[Len(line)] = LF
    THEN RStripAlt(SubSeq(line, 1, Len(line) - 1))
    ELSE line

RECURSIVE RStrip(_)
\* bytes.rstrip(b'\r\n')
RStrip(line) ==
    IF line # <<>> /\ line[Len(line)] \in {CR, LF}
    THEN RStrip(SubSeq(line, 1, Len(line) - 1))
    ELSE line

RECURSIVE Split(_, _)
\* bytes.split(sep): the sep-delimited segments, in order
Split(line, sep) ==
    LET i == FirstIndex(line, sep, 1)
    IN  IF i = 0 THEN <<line>>
        ELSE <<SubSeq(line, 1, i - 1)>> \o Split(SubSeq(line, i + 1, Len(line)), sep)

RECURSIVE LastIndex(_, _, _)
\* the greatest i <= from with s[i] = x, or 0
LastIndex(s, x, from) ==
    IF from < 1 THEN 0
    ELSE IF s[from] = x THEN from ELSE LastIndex(s, x, from - 1)

\* bytes.rsplit(sep, 1)[-1]
RSplitLast(line, sep) ==
    SubSeq(line, LastIndex(line, sep, Len(line)) + 1, Len(line))

\* re.sub(br'\x1B\[.*?[a-zA-Z]', b'', pragma)
StripAnsi(pragma) == SelectSeq(pragma, LAMBDA b : b # ANSI)

\* re.match(br'\Atravis_time:end:\w+:start=(\d+),finish=(\d+),duration=\d+\Z')
\* the index of the pragma matched, or 0 for None
MatchTimeEnd(pragma) ==
    IF Len(pragma) = 1 /\ pragma[1] \in PragmaAtoms
    THEN pragma[1] - PragmaBase ELSE 0

template == <<Attr("dim"), FieldAs("m", "02"), Lit(<<Ord(":")>>),
              FieldAs("s", "05.2f"), Attr("off")>>

\* template.format(m=.., s=.., t=SimpleNamespace(dim='', off=''))
Unstyled(m, s) == StrFormat(template, [m |-> m, s |-> s],
                            [dim |-> <<>>, off |-> <<>>]).val

placeholder == Repeat(SP, Len(Unstyled(IntV(0), IntV(0))))

\* the rest of the loop body once the marker is formatted (ts): an
\* exception leaves it, else the marker is printed
TsPrint(st, start1, t, buf, ts, pragma) ==
    IF ts.ok
    THEN [start |-> start1, have_ts |-> TRUE, tbuf |-> buf \o ts.val,
          err |-> "none",
          width |-> Len(Unstyled(IntV(t \div 6000), FloatV(t % 6000))),
          matched |-> st.matched \o <<pragma>>,
          markers |-> st.markers \o <<t>>]
    ELSE [st EXCEPT !.start = start1, !.tbuf = buf, !.err = ts.err,
                    !.matched = @ \o <<pragma>>]

\* the loop body from `if start is None` on, start1 being start after it:
\* t is in hundredths of a second, divmod(t, 60) is (t div 6000, t mod 6000)
TsElapsed(st, start1, pragma) ==
    TsPrint(st, start1, pragma.finish - start1,
            IF st.have_ts THEN st.tbuf \o <<LF>> ELSE st.tbuf,
            format(template, [m |-> IntV((pragma.finish - start1) \div 6000),
                              s |-> FloatV((pragma.finish - start1) % 6000)]),
            pragma)

\* the body of `for pragma in pragmas` when the pragma matches TimeEnd[i];
\* st carries start, have_ts, the text printed and the exception raised
TsMarker(i, st) ==
    TsElapsed(st, IF st.start = None THEN TimeEnd[i].start ELSE st.start,
              TimeEnd[i])

\* the body of `for pragma in pragmas`; i is what re.match returned
TsMatch(i, st) == IF i = 0 THEN st ELSE TsMarker(i, st)
TsPragma(pragma, st) == TsMatch(MatchTimeEnd(StripAnsi(pragma)), st)

RECURSIVE TsPragmas(_, _)
\* the `for pragma in pragmas` loop, which an exception ends
TsPragmas(pragmas, st) ==
    IF pragmas = <<>> \/ st.err # "none" THEN st
    ELSE TsPragmas(Tail(pragmas), TsPragma(Head(pragmas), st))

\* the end of an iteration of `for line in fp`: st is the state after the
\* pragmas, text the last segment
TsWrite(line, text, st) ==
    /\ fp' = SubSeq(fp, Len(line) + 1, Len(fp))
    /\ cur_line' = line
    /\ start' = st.start
    /\ matched' = st.matched
    /\ markers' = st.markers
    /\ IF st.err # "none"
       THEN /\ job_pc' = "aborted"
            /\ job_exc' = st.err
            /\ tbuf' = st.tbuf
            /\ out' = out
            /\ cur_out' = [bytes |-> <<>>, width |-> None]
       ELSE /\ job_pc' = "loop"
            /\ job_exc' = "none"
            /\ tbuf' = <<>>
            /\ IF st.have_ts
               THEN /\ out' = out \o st.tbuf \o <<SP>> \o text \o <<LF>>
                    /\ cur_out' = [bytes |-> st.tbuf \o <<SP>> \o text \o <<LF>>,
                                   width |-> st.width + 1]
               ELSE /\ out' = out \o st.tbuf \o placeholder \o <<SP>> \o text \o <<LF>>
                    /\ cur_out' = [bytes |-> st.tbuf \o placeholder \o <<SP>>
                                             \o text \o <<LF>>,
                                   width |-> Len(placeholder) + 1]

\* `*pragmas, text = line.split(b'\r')` and the loop over the pragmas
TsSegments(line, segs) ==
    TsWrite(line, segs[Len(segs)],
            TsPragmas(SubSeq(segs, 1, Len(segs) - 1),
                      [start |-> start, have_ts |-> FALSE, tbuf |-> tbuf,
                       err |-> "none", width |-> 0,
                       matched |-> matched, markers |-> markers]))

\* line.rstrip(b'\r\n') and line.split(b'\r')
TsIteration(line) == TsSegments(line, Split(RStrip(line), CR))

\* one iteration of print_ts_lines' `for line in fp`
TsLine ==
    /\ mode = "timestamps" /\ job_pc = "loop" /\ fp # <<>>
    /\ TsIteration(ReadLine(fp))
    /\ UNCHANGED <<mode, colorVars, pagerVars, mainVars>>

\* one iteration of show_job's loop with neither --raw-cr nor --timestamps
CollapsedLine ==
    /\ mode = "collapsed" /\ job_pc = "loop" /\ fp # <<>>
    /\ LET line == ReadLine(fp)
           last == RSplitLast(RStrip(line), CR)
       IN  /\ fp' = SubSeq(fp, Len(line) + 1, Len(fp))
           /\ cur_line' = line
           /\ out' = out \o last \o <<LF>>
           /\ cur_out' = [bytes |-> last \o <<LF>>, width |-> 0]
    /\ UNCHANGED <<mode, job_pc, job_exc, start, tbuf, matched, markers,
                   colorVars, pagerVars, mainVars>>

\* the response is exhausted: the loop ends
JobEOF ==
    /\ job_pc = "loop" /\ fp = <<>>
    /\ job_pc' = "done"
    /\ UNCHANGED <<fp, mode, job_exc, start, tbuf, out, cur_line, cur_out,
                   matched, markers, colorVars, pagerVars, mainVars>>

JobInit(m, streams) ==
    /\ mode = m
    /\ fp \in streams
    /\ job_pc = "loop"
    /\ job_exc = "none"
    /\ start = None
    /\ tbuf = <<>>
    /\ out = <<>>
    /\ cur_line = <<>>
    /\ cur_out = [bytes |-> <<>>, width |-> None]
    /\ matched = <<>>
    /\ markers = <<>>

\* ------------------------------------------------------------ lib/pager.py

MaxPending == 2

\* what leaves the `except BrokenPipeError: sys.exit(1)` clause when e
\* arrives, were the clause absent
ExceptClauseAbsent(e) == e

\* what leaves the `except BrokenPipeError: sys.exit(1)` clause when e arrives
ExceptClause(e) == IF e = "BrokenPipeError" THEN "SystemExit(1)" ELSE e

\* the exit status of a process that ends with e propagating to the top
ExitStatus(e) ==
    CASE e = "none" -> 0
      [] e = "SystemExit(0)" -> 0
      [] OTHER -> 1

\* shutil.which(command) and command
_find_command(command, which) == IF which THEN command ELSE ""

\* _find_command('pager') or 'more'
get_default_pager(which) ==
    IF _find_command("pager", which) # "" THEN _find_command("pager", which)
    ELSE "more"

\* os.environ.get('PAGER') or get_default_pager(); "" is an unset variable
Cmdline(e) == IF e.PAGER # "" THEN e.PAGER ELSE get_default_pager(e.which_pager)

\* env after the two `not in os.environ` tests
PagerEnv(e) ==
    IF e.LESS # "" /\ e.LV # "" THEN "None"
    ELSE [LESS |-> IF e.LESS = "" THEN "FXR" ELSE e.LESS,
          LV   |-> IF e.LV = "" THEN "-c" ELSE e.LV]

\* stdout is not a terminal, or the pager command is "cat": plain yield
EnterDirect ==
    /\ pg_pc = "enter"
    /\ ~environ.isatty \/ Cmdline(environ) = "cat"
    /\ pg_pc' = "direct"
    /\ UNCHANGED <<environ, pager_env, sys_stdout, pipe_open, pager, pending, exc, exit_status,
                   events, bpe_at, colorVars, jobVars, mainVars>>

\* the body of the with statement, without a pager
DirectBody ==
    /\ pg_pc = "direct"
    /\ \E e \in {"none", "Exception", "SystemExit(0)", "SystemExit(1)"} :
          /\ exc' = e
          /\ exit_status' = ExitStatus(e)
    /\ pg_pc' = "done"
    /\ UNCHANGED <<environ, pager_env, sys_stdout, pipe_open, pager, pending, events, bpe_at,
                   colorVars, jobVars, mainVars>>

\* ipc.Popen(cmdline, shell=True, stdin=ipc.PIPE, env=env)
Spawn ==
    /\ pg_pc = "enter"
    /\ environ.isatty /\ Cmdline(environ) # "cat"
    /\ pager_env' = PagerEnv(environ)
    /\ environ' = environ
    /\ \/ /\ pager' = "running"
          /\ pipe_open' = TRUE
          /\ pg_pc' = "wrap"
          /\ exc' = exc
       \/ /\ exc' = "OSError"
          /\ pg_pc' = "unwind"
          /\ UNCHANGED <<pager, pipe_open>>
    /\ UNCHANGED <<sys_stdout, pending, exit_status, events, bpe_at,
                   colorVars, jobVars, mainVars>>

\* sys.stdout = io.TextIOWrapper(pager.stdin, encoding=orig_stdout.encoding)
Wrap ==
    /\ pg_pc = "wrap"
    /\ \/ /\ sys_stdout' = "redirected"
          /\ pg_pc' = "body"
          /\ exc' = exc
       \/ /\ exc' = "LookupError"
          /\ pg_pc' = "wait"
          /\ sys_stdout' = sys_stdout
    /\ UNCHANGED <<environ, pager_env, pipe_open, pager, pending, exit_status, events, bpe_at,
                   colorVars, jobVars, mainVars>>

\* the body writes to the redirected stream, which buffers
BodyWrite ==
    /\ pg_pc = "body" /\ pending < MaxPending
    /\ pending' = pending + 1
    /\ UNCHANGED <<environ, pager_env, pg_pc, sys_stdout, pipe_open, pager, exc, exit_status,
                   events, bpe_at, colorVars, jobVars, mainVars>>

\* the buffer is written to the pipe (a flush, or the buffer filling up)
BodyFlush ==
    /\ pg_pc = "body" /\ pending > 0
    /\ IF pager = "running"
       THEN /\ pending' = 0
            /\ UNCHANGED <<pg_pc, exc, bpe_at>>
       ELSE /\ exc' = "BrokenPipeError"
            /\ bpe_at' = bpe_at \cup {"body"}
            /\ pg_pc' = "close"
            /\ pending' = pending
    /\ UNCHANGED <<environ, pager_env, sys_stdout, pipe_open, pager, exit_status, events,
                   colorVars, jobVars, mainVars>>

\* the body returns, raises, or calls exit
BodyEnd ==
    /\ pg_pc = "body"
    /\ \E e \in {"none", "Exception", "SystemExit(0)", "SystemExit(1)"} : exc' = e
    /\ pg_pc' = "close"
    /\ UNCHANGED <<environ, pager_env, sys_stdout, pipe_open, pager, pending, exit_status, events,
                   bpe_at, colorVars, jobVars, mainVars>>

\* finally: sys.stdout.close() -- flushes what is buffered, and closes the
\* pipe whether or not the flush failed
Close ==
    /\ pg_pc = "close"
    /\ events' = Append(events, "close")
    /\ pipe_open' = FALSE
    /\ IF pending > 0 /\ pager # "running"
       THEN /\ exc' = "BrokenPipeError"
            /\ bpe_at' = bpe_at \cup {"close"}
       ELSE UNCHANGED <<exc, bpe_at>>
    /\ pending' = 0
    /\ pg_pc' = "wait"
    /\ UNCHANGED <<environ, pager_env, sys_stdout, pager, exit_status, colorVars, jobVars, mainVars>>

\* finally: pager.wait() is called
WaitBegin ==
    /\ pg_pc = "wait"
    /\ events' = Append(events, IF pipe_open THEN "wait(pipe open)" ELSE "wait")
    /\ pg_pc' = "waiting"
    /\ UNCHANGED <<environ, pager_env, sys_stdout, pipe_open, pager, pending, exc, exit_status,
                   bpe_at, colorVars, jobVars, mainVars>>

\* pager.wait() returns: the subprocess has terminated
WaitEnd ==
    /\ pg_pc = "waiting" /\ pager = "exited"
    /\ pager' = "reaped"
    /\ pg_pc' = "unwind"
    /\ UNCHANGED <<environ, pager_env, sys_stdout, pipe_open, pending, exc, exit_status, events,
                   bpe_at, colorVars, jobVars, mainVars>>

\* the pager subprocess terminates: it read end-of-file and the user left
\* it, or the user quit it early
PagerExit ==
    /\ pager = "running"
    /\ pager' = "exited"
    /\ UNCHANGED <<environ, pager_env, pg_pc, sys_stdout, pipe_open, pending, exc, exit_status,
                   events, bpe_at, colorVars, jobVars, mainVars>>

\* except BrokenPipeError: sys.exit(1); finally: sys.stdout = orig_stdout
Unwind ==
    /\ pg_pc = "unwind"
    /\ exc' = ExceptClause(exc)
    /\ sys_stdout' = "orig"
    /\ events' = Append(events, "restore")
    /\ exit_status' = ExitStatus(ExceptClause(exc))
    /\ pg_pc' = "done"
    /\ UNCHANGED <<environ, pager_env, pipe_open, pager, pending, bpe_at, colorVars, jobVars,
                   mainVars>>

Environs == [isatty : BOOLEAN, which_pager : BOOLEAN, PAGER : {"", "cat", "less"},
             LESS : {"", "R"}, LV : {"", "-a"}]
NoEnviron == [isatty |-> FALSE, which_pager |-> FALSE, PAGER |-> "", LESS |-> "",
              LV |-> ""]

PagerStart(es) ==
    /\ environ \in es
    /\ pager_env = "None"
    /\ pg_pc = "enter"
    /\ sys_stdout = "orig"
    /\ pipe_open = FALSE
    /\ pager = "none"
    /\ pending = 0
    /\ exc = "none"
    /\ exit_status = None
    /\ events = <<>>
    /\ bpe_at = {}

\* ------------------------------------------------------------ lib/cli.py: main

\* A URL path is the sequence of its "/"-separated segments after the
\* leading "/".  Only the last of these is no match of [\w.-]+ .
MaxPath == 5
Segments == {"github", "branches", "builds", "jobs", "o", "42", ""}
\* [\w.-]+ matches the whole segment
IsWord(seg)   == seg # ""
\* \d+ matches the whole segment
IsDigits(seg) == seg = "42"

LitSeg(x) == [lit |-> x,  cap |-> ""]
Digits1(name) == [lit |-> "", cap |-> name]

\* _dispatch with the branches and the empty-suffix patterns in the other
\* order
_dispatch_swapped ==
    << [regex |-> <<>>,                                   cmd |-> "show_branches"],
       [regex |-> <<LitSeg("branches")>>,                 cmd |-> "show_branches"],
       [regex |-> <<LitSeg("builds"), Digits1("build_id")>>, cmd |-> "show_build"],
       [regex |-> <<LitSeg("jobs"), Digits1("job_id")>>,  cmd |-> "show_job"] >>

\* _dispatch once the module is imported: a decorator nearer the function
\* is applied, and so registers, first
_dispatch ==
    << [regex |-> <<LitSeg("branches")>>,                 cmd |-> "show_branches"],
       [regex |-> <<>>,                                   cmd |-> "show_branches"],
       [regex |-> <<LitSeg("builds"), Digits1("build_id")>>, cmd |-> "show_build"],
       [regex |-> <<LitSeg("jobs"), Digits1("job_id")>>,  cmd |-> "show_job"] >>

NoMatch == [cmd |-> "none", project |-> <<>>, build_id |-> "", job_id |-> ""]

CapturedAs(regex, rest, name) ==
    LET hits == {i \in 1..Len(regex) : regex[i].cap = name}
    IN  IF hits = {} THEN "" ELSE rest[CHOOSE i \in hits : TRUE]

\* \A/(?P<project>[\w.-]+/[\w.-]+){regex}\Z on the path, read with
\* (alias) or without the github/ prefix
MatchReading(regex, path, alias) ==
    LET body == IF alias THEN Tail(path) ELSE path
        rest == SubSeq(body, 3, Len(body))
    IN  /\ alias => (path # <<>> /\ path[1] = "github")
        /\ Len(body) = 2 + Len(regex)
        /\ IsWord(body[1]) /\ IsWord(body[2])
        /\ \A i \in 1..Len(regex) :
              IF regex[i].cap = "" THEN rest[i] = regex[i].lit
              ELSE IsDigits(rest[i])

GroupDict(regex, path, alias) ==
    LET body == IF alias THEN Tail(path) ELSE path
        rest == SubSeq(body, 3, Len(body))
    IN  [project  |-> <<body[1], body[2]>>,
         build_id |-> CapturedAs(regex, rest, "build_id"),
         job_id   |-> CapturedAs(regex, rest, "job_id")]

\* re.match(regex, path): (?:github/)? is tried with the prefix first
ReMatch(regex, path) ==
    IF MatchReading(regex, path, TRUE)
    THEN [matched |-> TRUE, groups |-> GroupDict(regex, path, TRUE)]
    ELSE IF MatchReading(regex, path, FALSE)
    THEN [matched |-> TRUE, groups |-> GroupDict(regex, path, FALSE)]
    ELSE [matched |-> FALSE, groups |-> <<>>]

RECURSIVE Route(_, _)
\* `for regex, cmd in _dispatch: ... break`: the first entry that matches
Route(registry, path) ==
    IF registry = <<>> THEN NoMatch
    ELSE LET m == ReMatch(Head(registry).regex, path)
         IN  IF m.matched
             THEN [cmd |-> Head(registry).cmd, project |-> m.groups.project,
                   build_id |-> m.groups.build_id, job_id |-> m.groups.job_id]
             ELSE Route(Tail(registry), path)

NoUrl == [scheme |-> "", netloc |-> "", path |-> <<>>]
BaseUrl == [scheme |-> "https", netloc |-> "travis-ci.org", path |-> <<>>]

\* urlsplit(urljoin('https://travis-ci.org/', u)); u = NoUrl is None or ''.
\* The base path is "/", so a relative path and a rooted one join alike.
UrlJoin(u) ==
    IF u = NoUrl THEN BaseUrl
    ELSE LET scheme == IF u.scheme = "" THEN BaseUrl.scheme ELSE u.scheme
         IN  IF scheme # BaseUrl.scheme THEN [u EXCEPT !.scheme = scheme]
             ELSE IF u.netloc # "" THEN [u EXCEPT !.scheme = scheme]
             ELSE [scheme |-> scheme, netloc |-> BaseUrl.netloc, path |-> u.path]

\* a netloc test that accepts every host
HostAny(netloc) == TRUE

\* `netloc != 'travis-ci.org'` does not hold
HostOk(netloc) == netloc = "travis-ci.org"

\* path[:-4] if path.endswith('.git')
StripDotGit(path) ==
    IF path # <<>> /\ path[Len(path)] = "r.git"
    THEN [path EXCEPT ![Len(path)] = "r"] ELSE path

\* get_git_url(): "raise", or the value returned (NoUrl for None)
get_git_url(g) ==
    IF g.rc # 0
    THEN IF g.rc = 128 THEN [raised |-> FALSE, value |-> NoUrl]
         ELSE [raised |-> TRUE, value |-> NoUrl]
    ELSE IF g.netloc = "github.com"
         THEN [raised |-> FALSE,
               value |-> [scheme |-> "", netloc |-> "", path |-> StripDotGit(g.path)]]
         ELSE [raised |-> FALSE, value |-> NoUrl]

\* main(), up to the entry of `with lib.pager.autopager():`
Main ==
    /\ m_pc = "start"
    /\ LET got == IF arg.dot THEN get_git_url(git)
                  ELSE [raised |-> FALSE, value |-> arg.url]
           u   == UrlJoin(got.value)
           r   == Route(_dispatch, u.path)
       IN  IF got.raised
           THEN /\ m_pc' = "fatal"
                /\ UNCHANGED <<url, cmd, captures, pager_entered, m_exit>>
           ELSE /\ url' = u
                /\ IF \/ u.scheme \notin {"http", "https"}
                      \/ ~HostOk(u.netloc)
                      \/ r.cmd = "none"
                   THEN /\ m_pc' = "usage_error"
                        /\ m_exit' = 2
                        /\ UNCHANGED <<cmd, captures, pager_entered>>
                   ELSE /\ m_pc' = "in_session"
                        /\ cmd' = r.cmd
                        /\ captures' = [project |-> r.project,
                                        build_id |-> r.build_id,
                                        job_id |-> r.job_id]
                        /\ pager_entered' = TRUE
                        /\ m_exit' = m_exit
    /\ UNCHANGED <<arg, git, api_requests, colorVars, jobVars, pagerVars>>

\* the handler's request: get_json(url) / get(url)
ApiUrl(c, caps) ==
    CASE c = "show_branches" ->
           [endpoint |-> "repos/{project}/branches", project |-> caps.project, id |-> ""]
      [] c = "show_build" ->
           [endpoint |-> "repos/{project}/builds/{build_id}",
            project |-> caps.project, id |-> caps.build_id]
      [] c = "show_job" ->
           [endpoint |-> "jobs/{job_id}/log.txt", project |-> <<>>, id |-> caps.job_id]

\* cmd(options, **match.groupdict()) issues its request
Handler ==
    /\ m_pc = "in_session"
    /\ api_requests' = api_requests \cup {ApiUrl(cmd, captures)}
    /\ m_pc' = "handler_run"
    /\ UNCHANGED <<arg, git, url, cmd, captures, pager_entered, m_exit,
                   colorVars, jobVars, pagerVars>>

Paths == SeqsUpTo(Segments, MaxPath)
Schemes == {"", "http", "https", "ftp"}
Netlocs == {"", "travis-ci.org", "travis-ci.com"}
SomePaths == {<<>>, <<"o", "o">>, <<"o", "o", "builds", "42">>, <<"o", "builds">>}
GitRemotes == [rc : {0, 1, 128}, netloc : {"github.com", "gitlab.com", ""},
               path : {<<"o", "r.git">>, <<"o", "o">>, <<"o">>}]
NoGit == [rc |-> 128, netloc |-> "", path |-> <<>>]

MainInit ==
    /\ m_pc = "start"
    /\ \/ /\ arg \in [dot : {FALSE},
                      url : [scheme : {""}, netloc : {""}, path : Paths]
                            \cup [scheme : Schemes, netloc : Netlocs, path : SomePaths]]
          /\ git = NoGit
       \/ /\ arg = [dot |-> TRUE, url |-> NoUrl]
          /\ git \in GitRemotes
    /\ url = NoUrl
    /\ cmd = "none"
    /\ captures = [project |-> <<>>, build_id |-> "", job_id |-> ""]
    /\ pager_entered = FALSE
    /\ api_requests = {}
    /\ m_exit = None

\* ------------------------------------------------------------ calls of lib.colors

MaxQuoteLen == 3
\* a tab, two C0 characters, DEL, a C1 character, and two printable ones
QuoteChars == {TAB, 1, 31, DEL, 128, Ord("A"), SP}
StyleTokens == {"red", "green", "yellow", "cyan", "bold", "dim", "off",
                "reverse", "unreverse"}

\* '#{number} {branch} {state}', as show_branches prefixes it
BranchTemplate(prefix) ==
    prefix \o <<Lit(<<35>>), Field("number"), Lit(<<SP>>), Field("branch"),
                Lit(<<SP>>), Field("state")>>
\* '{t.cyan}' [+ '{t.bold}'] + '{url}{t.off}'
UrlTemplate(curious) ==
    <<Attr("cyan")>> \o (IF curious THEN <<Attr("bold")>> ELSE <<>>)
      \o <<Field("url"), Attr("off")>>
\* '#{number} {config}' + '{t.off}', as show_build prefixes it
JobTemplate(prefix) ==
    prefix \o <<Lit(<<35>>), Field("number"), Lit(<<SP>>), Field("config"),
                Attr("off")>>
Prefixes == {<<>>, <<Attr("yellow")>>, <<Attr("bold"), Attr("red")>>}

ProgramTemplates ==
    {BranchTemplate(p) : p \in Prefixes} \cup {JobTemplate(p) : p \in Prefixes}
    \cup {UrlTemplate(c) : c \in BOOLEAN} \cup {template}

ProgramKwargs(text) ==
    [number |-> IntV(7), branch |-> Str(text), state |-> Str(text),
     config |-> Str(text), url |-> Str(text), space |-> Str(<<>>),
     m |-> IntV(1), s |-> FloatV(150)]

ColorsInit ==
    /\ c_pc = "ready"
    /\ c_res = Ok(<<>>)
    /\ c_call \in
         [fn : {"_quote"}, template : {<<>>}, kwargs : {<<>>},
          value : {Str(t) : t \in SeqsUpTo(QuoteChars, MaxQuoteLen)} \cup {IntV(7)}]
         \cup
         [fn : {"format"},
          template : ProgramTemplates \cup {<<Attr(tok)>> : tok \in StyleTokens}
                     \cup {<<Field("missing")>>},
          kwargs : {ProgramKwargs(t) : t \in SeqsUpTo({TAB, Ord("A")}, 1)},
          value : {IntV(0)}]

\* _quote(value)
QuoteCall ==
    /\ c_pc = "ready" /\ c_call.fn = "_quote"
    /\ c_res' = _quote(c_call.value)
    /\ c_pc' = "done"
    /\ UNCHANGED <<c_call, jobVars, pagerVars, mainVars>>

\* lib.colors.format(template, **kwargs)
FormatCall ==
    /\ c_pc = "ready" /\ c_call.fn = "format"
    /\ c_res' = format(c_call.template, c_call.kwargs)
    /\ c_pc' = "done"
    /\ UNCHANGED <<c_call, jobVars, pagerVars, mainVars>>

ColorsIdle ==
    /\ c_pc = "done"
    /\ c_call = [fn |-> "none", template |-> <<>>, kwargs |-> <<>>, value |-> IntV(0)]
    /\ c_res = Ok(<<>>)

JobIdle == JobInit("none", {<<>>})
PagerIdle == PagerStart({NoEnviron})
MainIdle ==
    /\ m_pc = "idle"
    /\ arg = [dot |-> FALSE, url |-> NoUrl]
    /\ git = NoGit
    /\ url = NoUrl
    /\ cmd = "none"
    /\ captures = [project |-> <<>>, build_id |-> "", job_id |-> ""]
    /\ pager_entered = FALSE
    /\ api_requests = {}
    /\ m_exit = None

\* ------------------------------------------------------------ specifications

\* lib.colors: one call of _quote or format
ColorsNext == QuoteCall \/ FormatCall
ColorsSpecInit == ColorsInit /\ JobIdle /\ PagerIdle /\ MainIdle
SpecColors == ColorsSpecInit /\ [][ColorsNext]_vars

\* show_job --timestamps over one log stream
TsNext == TsLine \/ JobEOF
TsInit ==
    /\ JobInit("timestamps", SeqsUpTo(TsBytes, MaxTsStream))
    /\ ColorsIdle /\ PagerIdle /\ MainIdle
SpecTs == TsInit /\ [][TsNext]_vars

\* show_job with no option over one log stream
CollapsedNext == CollapsedLine \/ JobEOF
CollapsedInit ==
    /\ JobInit("collapsed", SeqsUpTo(ColBytes, MaxColStream))
    /\ ColorsIdle /\ PagerIdle /\ MainIdle
SpecCollapsed == CollapsedInit /\ [][CollapsedNext]_vars

\* one autopager session, the pager subprocess running beside it
PagerNext ==
    \/ EnterDirect \/ DirectBody \/ Spawn \/ Wrap \/ BodyWrite \/ BodyFlush
    \/ BodyEnd \/ Close \/ WaitBegin \/ WaitEnd \/ PagerExit \/ Unwind
PagerSpecInit == PagerStart(Environs) /\ ColorsIdle /\ JobIdle /\ MainIdle
SpecPager == PagerSpecInit /\ [][PagerNext]_vars

\* one invocation of main
MainNext == Main \/ Handler
MainSpecInit == MainInit /\ ColorsIdle /\ JobIdle /\ PagerIdle
SpecMain == MainSpecInit /\ [][MainNext]_vars

\* ------------------------------------------------------------ properties

\* the CR-delimited segments of a line as print_ts_lines sees them
SegmentsOf(line) == Split(RStrip(line), CR)
VisibleText(line) == SegmentsOf(line)[Len(SegmentsOf(line))]
\* how many pragma segments of the line match the timing-end pattern
MatchingCount(line) ==
    Cardinality({i \in 1..(Len(SegmentsOf(line)) - 1) :
                   MatchTimeEnd(StripAnsi(SegmentsOf(line)[i])) # 0})
Count(s, x) == Cardinality({i \in DOMAIN s : s[i] = x})
IsSuffix(s, whole) ==
    /\ Len(s) <= Len(whole)
    /\ SubSeq(whole, Len(whole) - Len(s) + 1, Len(whole)) = s

\* C1: in timestamp mode the origin is unset until the first matching
\* pragma, is then that pragma's start field and never changes, and every
\* matching pragma read has had its marker rendered, showing its finish
\* minus that origin.
C1_OriginAndElapsed ==
    mode = "timestamps" =>
        /\ matched = <<>> => start = None
        /\ matched # <<>> => start = matched[1].start
        /\ Len(markers) = Len(matched)
        /\ \A i \in DOMAIN markers : markers[i] = matched[i].finish - matched[1].start

\* C2: in timestamp mode every line read has had a prefix written before
\* its visible text, of the printed width of the placeholder plus one space.
C2_PrefixWidth ==
    (mode = "timestamps" /\ cur_line # <<>>) =>
        cur_out.width = Len(placeholder) + 1

\* C10: in timestamp mode a line with k >= 1 matching pragmas has produced
\* its markers with k - 1 line breaks between them and none before the
\* first, then one space, the visible text unchanged and one newline, all
\* of it flushed to the output in that order.
C10_MarkerLineLayout ==
    (mode = "timestamps" /\ cur_line # <<>> /\ MatchingCount(cur_line) >= 1) =>
        /\ tbuf = <<>>
        /\ IsSuffix(cur_out.bytes, out)
        /\ IsSuffix(<<SP>> \o VisibleText(cur_line) \o <<LF>>, cur_out.bytes)
        /\ LET n == Len(cur_out.bytes) - Len(VisibleText(cur_line)) - 2
               prefix == SubSeq(cur_out.bytes, 1, n)
           IN  /\ n >= 1
               /\ prefix[1] # LF
               /\ Count(prefix, LF) = MatchingCount(cur_line) - 1

\* the escape the claim gives for one character
Reverse   == <<ESC, Ord("["), Ord("7"), Ord("m")>>
Unreverse == <<ESC, Ord("["), Ord("2"), Ord("7"), Ord("m")>>
Escaped(ch) ==
    IF ch = TAB THEN Reverse \o <<TAB>> \o Unreverse
    ELSE IF ch \in 0..31 \/ ch = DEL
    THEN Reverse \o <<Ord("^"), BitXor(ch, 64)>> \o Unreverse
    ELSE IF ch \in 128..159
    THEN Reverse \o <<Ord("<"), Ord("U"), Ord("+")>> \o ZeroPad(Digits(ch, 16), 4)
         \o <<Ord(">")>> \o Unreverse
    ELSE <<ch>>

\* C8: _quote returns for every text the text with each control character
\* escaped and every other character kept (so text without control
\* characters comes back unchanged), returns any other value as it is, and
\* raises for no input.
C8_QuoteEscapes ==
    (c_pc = "done" /\ c_call.fn = "_quote") =>
        /\ c_res.ok
        /\ c_call.value.ty # "str" => c_res.val = c_call.value
        /\ c_call.value.ty = "str" =>
             c_res.val.v = Concat([i \in DOMAIN c_call.value.v |->
                                     Escaped(c_call.value.v[i])])

\* C9: format fails only when the template names a placeholder that the
\* caller's mapping lacks; a template that uses any of the nine style
\* tokens formats.
C9_StyleTokensFormat ==
    (c_pc = "done" /\ c_call.fn = "format") =>
        (c_res.ok <=>
            \A i \in DOMAIN c_call.template :
                c_call.template[i].k = "field" =>
                    c_call.template[i].name \in DOMAIN c_call.kwargs)

\* C3: in collapsed mode the bytes written for a line are one newline after
\* the last CR-delimited segment of the line stripped of all its trailing
\* CR/LF: they hold no CR and no other LF, and are the part of the stripped
\* line that follows its last CR (all of it when it has none).
C3_CollapsedLine ==
    (mode = "collapsed" /\ cur_line # <<>>) =>
        LET o    == cur_out.bytes
            body == SubSeq(o, 1, Len(o) - 1)
        IN  /\ Len(o) >= 1 /\ o[Len(o)] = LF
            /\ IsSuffix(o, out)
            /\ Count(body, CR) = 0 /\ Count(body, LF) = 0
            /\ \E n \in 0..Len(cur_line) :
                  /\ \A i \in (n + 1)..Len(cur_line) : cur_line[i] \in {CR, LF}
                  /\ n > 0 => cur_line[n] \notin {CR, LF}
                  /\ IsSuffix(body, SubSeq(cur_line, 1, n))
                  /\ Len(body) < n => cur_line[n - Len(body)] = CR

\* a line of three segments that ends in CR LF has been collapsed
C3_Witness ==
    /\ mode = "collapsed"
    /\ cur_line = <<Ord("A"), CR, Ord("B"), CR, LF>>
    /\ cur_out.bytes = <<Ord("B"), LF>>

\* C4: once the pager is spawned, a finished session has closed the
\* redirected stream, then waited for the pager, then restored stdout, each
\* once, and the wait never starts while the pager's input pipe is open.
C4_CloseWaitRestore ==
    /\ \A i \in DOMAIN events : events[i] # "wait(pipe open)"
    /\ (pg_pc = "done" /\ pager # "none") =>
          /\ events = <<"close", "wait", "restore">>
          /\ sys_stdout = "orig"

\* C5: a session in which a write to the pager's pipe failed with a broken
\* pipe (in the body or in close) ends with SystemExit of a non-zero status
\* leaving autopager, never the BrokenPipeError, after the pager was waited
\* for and stdout restored.
C5_BrokenPipeExits ==
    /\ pg_pc = "done" => exc # "BrokenPipeError"
    /\ (pg_pc = "done" /\ bpe_at # {}) =>
          /\ exc = "SystemExit(1)"
          /\ exit_status > 0
          /\ pager = "reaped"
          /\ sys_stdout = "orig"
          /\ IsSuffix(<<"wait", "restore">>, events)

\* a session has ended after broken pipes both in the body and in close
C5_Witness ==
    /\ pg_pc = "done"
    /\ bpe_at = {"body", "close"}
    /\ exit_status = 1

\* The handler and captures the path grammar gives, read off the shape of
\* the path: an optional github alias, owner, repo, and a suffix.
Caps(c, o, r, b, j) ==
    [cmd |-> c, project |-> <<o, r>>, build_id |-> b, job_id |-> j]
ByShape(p) ==
    LET n == Len(p)
        W(i) == IsWord(p[i])
    IN  CASE n = 2 /\ W(1) /\ W(2) -> Caps("show_branches", p[1], p[2], "", "")
          [] n = 3 /\ W(1) /\ W(2) /\ p[3] = "branches" ->
               Caps("show_branches", p[1], p[2], "", "")
          [] n = 3 /\ p[1] = "github" /\ W(2) /\ W(3) /\ p[3] # "branches" ->
               Caps("show_branches", p[2], p[3], "", "")
          [] n = 4 /\ p[1] = "github" /\ W(2) /\ W(3) /\ p[4] = "branches" ->
               Caps("show_branches", p[2], p[3], "", "")
          [] n = 4 /\ W(1) /\ W(2) /\ p[3] = "builds" /\ IsDigits(p[4]) ->
               Caps("show_build", p[1], p[2], p[4], "")
          [] n = 5 /\ p[1] = "github" /\ W(2) /\ W(3) /\ p[4] = "builds"
                   /\ IsDigits(p[5]) ->
               Caps("show_build", p[2], p[3], p[5], "")
          [] n = 4 /\ W(1) /\ W(2) /\ p[3] = "jobs" /\ IsDigits(p[4]) ->
               Caps("show_job", p[1], p[2], "", p[4])
          [] n = 5 /\ p[1] = "github" /\ W(2) /\ W(3) /\ p[4] = "jobs"
                   /\ IsDigits(p[5]) ->
               Caps("show_job", p[2], p[3], "", p[5])
          [] OTHER -> NoMatch

Dispatched == m_pc \in {"in_session", "handler_run"}
Chosen == [cmd |-> cmd, project |-> captures.project,
           build_id |-> captures.build_id, job_id |-> captures.job_id]
\* /github/<name>/branches: the aliased project <name>/branches, and the
\* branches page of the project github/<name>
TwoReadings(p) == Len(p) = 3 /\ p[1] = "github" /\ IsWord(p[2]) /\ p[3] = "branches"

C7_OnlyRoutedUrlsRun ==
    m_pc # "start" =>
        LET good == /\ url.scheme \in {"http", "https"}
                    /\ url.netloc = "travis-ci.org"
                    /\ ByShape(url.path) # NoMatch
            ran  == cmd # "none" \/ pager_entered \/ api_requests # {}
            gitFails == arg.dot /\ git.rc \notin {0, 128}
        IN  /\ ran => good /\ Dispatched
            /\ gitFails <=> m_pc = "fatal"
            /\ gitFails => ~ran /\ m_exit = None
            /\ (~gitFails /\ ~good) =>
                  m_pc = "usage_error" /\ m_exit > 0 /\ ~ran
            /\ (arg.dot /\ (git.rc = 128 \/ (git.rc = 0 /\ git.netloc # "github.com")))
                  => m_pc = "usage_error"
            /\ (~arg.dot /\ arg.url.scheme = "ftp") => m_pc = "usage_error"
            /\ (~arg.dot /\ arg.url.netloc = "travis-ci.com") => m_pc = "usage_error"

\* a URL on another host whose path has a routed shape was refused
C7_Witness ==
    /\ m_pc = "usage_error"
    /\ url.netloc = "travis-ci.com"
    /\ url.scheme = "https"
    /\ ByShape(url.path) # NoMatch
    /\ m_exit = 2

=============================================================================
